---- MODULE Spec2Model ----
(***************************************************************************)
(* The HelloWorld greeting contract, the deployment script main() and the  *)
(* mocha test suites of the repository, as state machines.                 *)
(*                                                                         *)
(*   Spec     the deployed contract under arbitrary calls by any callers   *)
(*   SpecRun  one process loading and running a file of the repository:    *)
(*            scripts/deploy.ts as it is (main() called at line 22, then   *)
(*            describe(...) at line 30, in the same module), or one of the *)
(*            two files the README gives (deploy.ts, HelloWorld.test.ts)   *)
(***************************************************************************)
EXTENDS Integers, Sequences, FiniteSets, TLC

VARIABLES
    instances,  \* the live contract instances: address -> its variable greet
    history,    \* the calls the instances have executed, oldest first
    nonce,      \* the deployer account's transaction count on the chain
    pending,    \* requests the execution environment has not yet answered
    resp,       \* per async flow: the answer it resumes with (NoResp: none)
    issued,     \* per async flow: how often each kind of request was issued
    served,     \* the requests the environment has answered, oldest first
    file,       \* the file the process loads
    runner,     \* how it is loaded: as a script, by the test runner, ...
    proc,       \* the process: "load", "running" or "exited"
    pc,         \* where main() is
    tpc,        \* where the suite is
    HelloWorld, \* per async flow: its local HelloWorld, the contract factory
    hello,      \* local of main(): the deploying contract object
    stdout,     \* lines written by console.log
    stderr,     \* errors written to standard error
    exitCode,   \* process.exitCode (<<>>: never set)
    exitStatus, \* the status the process ended with (<<>> while it runs)
    signers,    \* locals [owner, addr1] of the suite
    helloWorld, \* local of the suite: the deployed contract object
    results     \* the outcome of each scenario, and of the before hook

contractVars == <<instances, history>>
envVars      == <<nonce, pending, resp, issued, served>>
procVars     == <<file, runner, proc>>
scriptVars   == <<pc, hello, stdout>>
exitVars     == <<stderr, exitCode, exitStatus>>
suiteVars    == <<tpc, signers, helloWorld, results>>
vars == <<instances, history, nonce, pending, resp, issued, served, file,
          runner, proc, pc, tpc, HelloWorld, hello, stdout, stderr, exitCode,
          exitStatus, signers, helloWorld, results>>

(***************************************************************************)
(* Bounds of the model.                                                    *)
(***************************************************************************)
MaxCalls == 3
MaxNonce == 3

(***************************************************************************)
(* Values.                                                                 *)
(***************************************************************************)
Undefined == <<"undefined">>

\* What a suspended caller resumes with: nothing yet, a value, or an error.
NoResp         == [state |-> "none"]
Ok(v)          == [state |-> "ok", value |-> v]
Err(kind, msg) == [state |-> "error", kind |-> kind, message |-> msg]

\* The async flows of a process: main() and the suite's hook and scenarios.
Flows == {"main", "suite"}

\* The kinds of request a flow sends to the execution environment.
Ops == {"getSigners", "getContractFactory", "deploy", "deployed", "call"}

\* The failures the execution environment may answer any request with.
EnvErrors == {"HardhatError", "NetworkError"}

\* Caller identities: the first two accounts of the node, and a third one.
Callers == {"owner", "addr1", "addr2"}

\* Arguments callers pass: the literals of the repository, the empty string,
\* a one-character string and a string that differs from a literal in case.
Strings == {"", "Hello, World!", "Hello, Ethereum!", "Hello from addr1!",
            "a", "hello, world!"}

(***************************************************************************)
(* The contract HelloWorld.                                                *)
(***************************************************************************)
\* A mutant of the constructor: the greeting is left at its default value.
Constructor_Default == ""

\* A mutant of the constructor: the literal is written in lower case.
Constructor_LowerCase == "hello, world!"

\* constructor(): greet = "Hello, World!"
Constructor == "Hello, World!"

\* The reason string of the require in setGreet.
EmptyGreetingReason == "Greeting cannot be empty"

\* The functions of the contract's ABI (greet is a private state variable and
\* has no getter).
Abi == {"greetFunction", "setGreet"}

\* A mutant of greetFunction: the literal is returned, not the storage.
greetFunction_Literal(storage, sender) ==
    [ok |-> TRUE, ret |-> "Hello, World!", greet |-> storage]

\* function greetFunction() public view returns (string memory)
greetFunction(storage, sender) ==
    [ok |-> TRUE, ret |-> storage, greet |-> storage]

\* A mutant of setGreet: the require is dropped.
setGreet_NoRequire(storage, _greet, sender) ==
    [ok |-> TRUE, ret |-> "", greet |-> _greet]

\* A mutant of setGreet: the argument is not stored.
setGreet_NoStore(storage, _greet, sender) ==
    IF Len(_greet) > 0
    THEN [ok |-> TRUE, ret |-> "", greet |-> storage]
    ELSE [ok |-> FALSE, ret |-> EmptyGreetingReason, greet |-> storage]

\* A mutant of setGreet: only the first account may set the greeting.
setGreet_OnlyOwner(storage, _greet, sender) ==
    IF sender = "owner" /\ Len(_greet) > 0
    THEN [ok |-> TRUE, ret |-> "", greet |-> _greet]
    ELSE [ok |-> FALSE, ret |-> EmptyGreetingReason, greet |-> storage]

\* function setGreet(string memory _greet) public: a failed require reverts
\* the transaction, which leaves the storage as it was.
setGreet(storage, _greet, sender) ==
    IF Len(_greet) > 0
    THEN [ok |-> TRUE, ret |-> "", greet |-> _greet]
    ELSE [ok |-> FALSE, ret |-> EmptyGreetingReason, greet |-> storage]

\* The address of a contract created by an account's transaction.
ContractAddress(sender, n) == <<sender, n>>

\* The state variable greet of the instance at an address.
greet(to) == instances[to]

\* The instance at an address executes one call and the history records it.
Executed(to, fn, sender, arg, r) ==
    [to |-> to, fn |-> fn, sender |-> sender, arg |-> arg, ok |-> r.ok,
     ret |-> r.ret, pre |-> greet(to), post |-> r.greet]

Execute(to, fn, sender, arg) ==
    IF fn = "setGreet" THEN setGreet(greet(to), arg, sender)
                       ELSE greetFunction(greet(to), sender)

(***************************************************************************)
(* Spec: one live instance, called by any caller with any argument.        *)
(***************************************************************************)
\* The instance Spec is about.
Deployed == ContractAddress("owner", 0)

\* No process runs.
NoProcess ==
    /\ nonce = 0
    /\ pending = <<>>
    /\ resp = [f \in Flows |-> NoResp]
    /\ issued = [f \in Flows |-> [op \in Ops |-> 0]]
    /\ served = <<>>
    /\ file = "none"
    /\ runner = "none"
    /\ proc = "none"
    /\ pc = "none"
    /\ tpc = "none"
    /\ HelloWorld = [f \in Flows |-> Undefined]
    /\ hello = Undefined
    /\ stdout = <<>>
    /\ stderr = <<>>
    /\ exitCode = <<>>
    /\ exitStatus = <<>>
    /\ signers = Undefined
    /\ helloWorld = Undefined
    /\ results = <<>>

processVars == <<envVars, procVars, scriptVars, exitVars, suiteVars, HelloWorld>>

\* The state after construction.
Init ==
    /\ instances = (Deployed :> Constructor)
    /\ history = <<>>
    /\ NoProcess

\* A caller calls greetFunction().
CallGreetFunction(sender) ==
    /\ Len(history) < MaxCalls
    /\ LET r == greetFunction(greet(Deployed), sender) IN
        /\ instances' = [instances EXCEPT ![Deployed] = r.greet]
        /\ history' = Append(history,
                             Executed(Deployed, "greetFunction", sender, "", r))
    /\ UNCHANGED processVars

\* A caller calls setGreet(_greet).
CallSetGreet(sender, _greet) ==
    /\ Len(history) < MaxCalls
    /\ LET r == setGreet(greet(Deployed), _greet, sender) IN
        /\ instances' = [instances EXCEPT ![Deployed] = r.greet]
        /\ history' = Append(history,
                             Executed(Deployed, "setGreet", sender, _greet, r))
    /\ UNCHANGED processVars

Next ==
    \/ \E sender \in Callers : CallGreetFunction(sender)
    \/ \E sender \in Callers, _greet \in Strings : CallSetGreet(sender, _greet)

Spec == Init /\ [][Next]_vars

(***************************************************************************)
(* Properties of the contract, checked under Spec.                         *)
(***************************************************************************)
IsSet(h)  == h.fn = "setGreet"
IsRead(h) == h.fn = "greetFunction"

\* The argument of the most recent successful setGreet of a history, or
\* "Hello, World!" when none has succeeded.
RECURSIVE LastSet(_)
LastSet(h) ==
    IF h = <<>> THEN "Hello, World!"
    ELSE LET last == h[Len(h)] IN
         IF IsSet(last) /\ last.ok THEN last.arg
         ELSE LastSet(SubSeq(h, 1, Len(h) - 1))

\* C1: setGreet("") by any caller, on any stored greeting g, fails with the
\* message "Greeting cannot be empty" and leaves g stored: the storage after
\* the call is g and a greetFunction call that follows returns g.
C1_EmptyRejected ==
    \A i \in DOMAIN history :
        (IsSet(history[i]) /\ history[i].arg = "") =>
            /\ ~history[i].ok
            /\ history[i].ret = "Greeting cannot be empty"
            /\ history[i].post = history[i].pre
            /\ (i = Len(history) => greet(Deployed) = history[i].pre)
            /\ (i < Len(history) /\ IsRead(history[i + 1]) =>
                    history[i + 1].ret = history[i].pre)

\* C1 witness: a caller other than the first has called setGreet("") on a
\* greeting other than the initial one, and a read has followed.
C1_Witness ==
    \E i \in DOMAIN history :
        /\ IsSet(history[i]) /\ history[i].arg = ""
        /\ history[i].sender # "owner"
        /\ history[i].pre = "Hello, Ethereum!"
        /\ i < Len(history) /\ IsRead(history[i + 1])

\* C2: setGreet(s) with a non-empty s succeeds on any stored greeting, and
\* the greetFunction call that immediately follows returns exactly s.
C2_WriteThenRead ==
    \A i \in DOMAIN history :
        (IsSet(history[i]) /\ history[i].arg # "") =>
            /\ history[i].ok
            /\ (i = Len(history) =>
                    \A c \in Callers : greetFunction(greet(Deployed), c).ret = history[i].arg)
            /\ (i < Len(history) /\ IsRead(history[i + 1]) =>
                    history[i + 1].ret = history[i].arg)

\* C2 witness: a non-empty string was set over a greeting other than the
\* initial one and then read.
C2_Witness ==
    \E i \in DOMAIN history :
        /\ IsSet(history[i]) /\ history[i].arg = "a"
        /\ history[i].pre = "Hello from addr1!"
        /\ i < Len(history) /\ IsRead(history[i + 1])

\* C3: in every state reachable from construction by greetFunction and
\* setGreet calls, the stored greeting is not the empty string.
C3_NeverEmpty == greet(Deployed) # "" /\ Len(greet(Deployed)) > 0

\* C3 witness: both a failing and a succeeding setGreet have run.
C3_Witness ==
    /\ \E i \in DOMAIN history : IsSet(history[i]) /\ ~history[i].ok
    /\ \E i \in DOMAIN history : IsSet(history[i]) /\ history[i].ok

\* No setGreet among the first n calls of the history has succeeded.
NoSetSucceeded(n) ==
    \A j \in 1..n : ~(IsSet(history[j]) /\ history[j].ok)

\* C4: on the instance as constructed, as long as no setGreet has succeeded
\* (none was called, or each one called failed), greetFunction succeeds and
\* returns exactly "Hello, World!" to any caller: so did every such read in
\* the history, and so would a read in the current state.
C4_FreshRead ==
    /\ \A i \in DOMAIN history :
            (IsRead(history[i]) /\ NoSetSucceeded(i - 1)) =>
                /\ history[i].ok
                /\ history[i].ret = "Hello, World!"
    /\ NoSetSucceeded(Len(history)) =>
            /\ greet(Deployed) = "Hello, World!"
            /\ \A c \in Callers :
                    /\ greetFunction(greet(Deployed), c).ok
                    /\ greetFunction(greet(Deployed), c).ret = "Hello, World!"

\* C4 witness: the first call on the instance was a read, and a later read
\* by another caller followed a setGreet that failed.
C4_Witness ==
    /\ Len(history) >= 3
    /\ IsRead(history[1])
    /\ IsSet(history[2]) /\ ~history[2].ok
    /\ IsRead(history[3]) /\ history[3].sender # history[1].sender

\* C5: the outcome of setGreet does not depend on the caller: on the same
\* stored greeting and argument any two callers both succeed or both fail
\* and leave the same greeting; a value one caller wrote is what
\* greetFunction returns to every caller.
C5_CallerIndependent ==
    /\ \A a, b \in Callers, s \in Strings :
            setGreet(greet(Deployed), s, a) = setGreet(greet(Deployed), s, b)
    /\ \A i, j \in DOMAIN history :
            (/\ IsSet(history[i]) /\ IsSet(history[j])
             /\ history[i].pre = history[j].pre
             /\ history[i].arg = history[j].arg) =>
                /\ history[i].ok = history[j].ok
                /\ history[i].ret = history[j].ret
                /\ history[i].post = history[j].post
    /\ \A i \in DOMAIN history :
            (IsSet(history[i]) /\ history[i].ok) =>
                /\ (i = Len(history) =>
                        \A c \in Callers : greetFunction(greet(Deployed), c).ret = history[i].arg)
                /\ (i < Len(history) /\ IsRead(history[i + 1]) =>
                        history[i + 1].ret = history[i].arg)

\* C5 witness: two different callers have set the same string over the same
\* greeting, and a caller has read what another caller wrote.
C5_Witness ==
    /\ \E i, j \in DOMAIN history :
            /\ IsSet(history[i]) /\ IsSet(history[j])
            /\ history[i].sender = "owner" /\ history[j].sender = "addr1"
            /\ history[i].pre = history[j].pre
            /\ history[i].arg = history[j].arg
            /\ history[i].arg # ""
    /\ \E i \in DOMAIN history :
            /\ i < Len(history)
            /\ IsSet(history[i]) /\ history[i].ok
            /\ IsRead(history[i + 1])
            /\ history[i + 1].sender # history[i].sender

\* C8: after any sequence of calls, greetFunction returns the argument of
\* the most recent successful setGreet, or "Hello, World!" if none has
\* succeeded; greetFunction calls and failed setGreet calls leave the stored
\* value as it was.
C8_ReadsLastSet ==
    /\ \A c \in Callers : greetFunction(greet(Deployed), c).ret = LastSet(history)
    /\ \A i \in DOMAIN history :
            /\ IsRead(history[i]) =>
                    /\ history[i].ok
                    /\ history[i].ret = LastSet(SubSeq(history, 1, i - 1))
            /\ (IsRead(history[i]) \/ ~history[i].ok) =>
                    history[i].post = history[i].pre
    /\ \A i \in DOMAIN history :
            /\ history[i].pre = LastSet(SubSeq(history, 1, i - 1))
            /\ history[i].post = LastSet(SubSeq(history, 1, i))

\* C8 witness: a successful set, then a failed set, then a read.
C8_Witness ==
    /\ Len(history) >= 3
    /\ IsSet(history[1]) /\ history[1].ok /\ history[1].arg = "Hello, Ethereum!"
    /\ IsSet(history[2]) /\ ~history[2].ok
    /\ IsRead(history[3])

(***************************************************************************)
(* The execution environment: the Hardhat runtime and its node.  A flow    *)
(* issues a request and is suspended until the environment answers it; an  *)
(* answer is delivered only to a running process, after the module has     *)
(* been loaded.  The node mines every transaction as it is sent (the       *)
(* networks of hardhat.config.ts set no mining mode, so the default        *)
(* applies).                                                               *)
(***************************************************************************)
Req(by, op, to, fn, sender, arg) ==
    [by |-> by, op |-> op, to |-> to, fn |-> fn, sender |-> sender, arg |-> arg]

NoAddress == ContractAddress("", 0)

\* The contracts the project compiles.
Artifacts == {"HelloWorld"}

\* A flow issues requests; what it resumed with is consumed.
Issue(by, reqs) ==
    /\ pending' = pending \o reqs
    /\ issued' = [issued EXCEPT ![by] = [op \in Ops |->
                    @[op] + Cardinality({i \in DOMAIN reqs : reqs[i].op = op})]]
    /\ resp' = [resp EXCEPT ![by] = NoResp]
    /\ UNCHANGED <<nonce, served>>

\* A flow takes the answer it resumed with and issues nothing.
Consume(by) ==
    /\ resp' = [resp EXCEPT ![by] = NoResp]
    /\ UNCHANGED <<nonce, pending, issued, served>>

\* The environment answers the outstanding request i with r.
Answer(i, r) ==
    /\ resp' = [resp EXCEPT ![pending[i].by] = r]
    /\ served' = Append(served, [by |-> pending[i].by, op |-> pending[i].op,
                                  ok |-> r.state = "ok",
                                  error |-> IF r.state = "ok" THEN "" ELSE r.kind,
                                  to |-> IF r.state = "ok" /\ pending[i].op = "deploy"
                                         THEN r.value.address ELSE pending[i].to])
    /\ pending' = SubSeq(pending, 1, i - 1) \o SubSeq(pending, i + 1, Len(pending))
    /\ UNCHANGED issued

Serving(i, op) == proc = "running" /\ i \in DOMAIN pending /\ pending[i].op = op

\* ethers.getSigners(): the accounts of the node.
EnvGetSigners(i) ==
    /\ Serving(i, "getSigners")
    /\ Answer(i, Ok(<<"owner", "addr1">>))
    /\ UNCHANGED <<contractVars, nonce>>

\* ethers.getContractFactory(name): a factory bound to the first account.
EnvGetContractFactory(i) ==
    /\ Serving(i, "getContractFactory")
    /\ IF pending[i].arg \in Artifacts
       THEN Answer(i, Ok([name |-> pending[i].arg, signer |-> "owner"]))
       ELSE Answer(i, Err("HardhatError", "artifact not found"))
    /\ UNCHANGED <<contractVars, nonce>>

\* factory.deploy(): the deployment transaction is sent and mined, which
\* runs the constructor; the contract object carries the new address.
EnvDeploy(i) ==
    /\ Serving(i, "deploy")
    /\ LET to == ContractAddress(pending[i].sender, nonce) IN
        /\ instances' = (to :> Constructor) @@ instances
        /\ Answer(i, Ok([address |-> to, signer |-> pending[i].sender]))
    /\ nonce' = nonce + 1
    /\ UNCHANGED history

\* contract.deployed(): resolves once the deployment transaction is mined.
EnvDeployed(i) ==
    /\ Serving(i, "deployed")
    /\ pending[i].to \in DOMAIN instances
    /\ Answer(i, Ok(pending[i].arg))
    /\ UNCHANGED <<contractVars, nonce>>

\* A call of a contract function: the instance executes it; a failed
\* require comes back as a revert with the reason string.
EnvCall(i) ==
    /\ Serving(i, "call")
    /\ pending[i].to \in DOMAIN instances
    /\ LET q == pending[i]
           r == Execute(q.to, q.fn, q.sender, q.arg) IN
        /\ instances' = [instances EXCEPT ![q.to] = r.greet]
        /\ history' = Append(history, Executed(q.to, q.fn, q.sender, q.arg, r))
        /\ Answer(i, IF r.ok THEN Ok(r.ret) ELSE Err("revert", r.ret))
    /\ UNCHANGED nonce

\* The environment fails an outstanding request.
EnvFail(i, e) ==
    /\ proc = "running"
    /\ i \in DOMAIN pending
    /\ Answer(i, Err(e, "environment failure"))
    /\ UNCHANGED <<contractVars, nonce>>

Resumed(f)  == proc = "running" /\ resp[f].state # "none"
Resolved(f) == proc = "running" /\ resp[f].state = "ok"
Rejected(f) == proc = "running" /\ resp[f].state = "error"

(***************************************************************************)
(* SpecRun: a process loads one file and runs what the file starts.        *)
(*                                                                         *)
(*   scripts/deploy.ts           main() is called at line 22 and           *)
(*                               describe(...) at line 30                  *)
(*   README: scripts/deploy.ts   the script the README gives (main() only) *)
(*   README: test/HelloWorld.test.ts   the suite the README gives          *)
(*                                                                         *)
(* "run" loads the file as a script (npx hardhat run), where describe is   *)
(* not defined; "test" loads it with the test runner, which defines        *)
(* describe, before and it; "esm" loads it as an ES module, where the      *)
(* second import of ethers (line 28) is a SyntaxError.                     *)
(***************************************************************************)
DeployTs       == "scripts/deploy.ts"
ReadmeDeployTs == "README: scripts/deploy.ts"
ReadmeTestTs   == "README: test/HelloWorld.test.ts"

Programs == {<<DeployTs, "run">>, <<DeployTs, "test">>, <<DeployTs, "esm">>,
             <<ReadmeDeployTs, "run">>, <<ReadmeTestTs, "test">>}

HasMain(f)  == f \in {DeployTs, ReadmeDeployTs}
HasSuite(f) == f \in {DeployTs, ReadmeTestTs}

InitRun ==
    /\ instances = [to \in {} |-> ""]
    /\ history = <<>>
    /\ nonce \in 0..MaxNonce
    /\ pending = <<>>
    /\ resp = [f \in Flows |-> NoResp]
    /\ issued = [f \in Flows |-> [op \in Ops |-> 0]]
    /\ served = <<>>
    /\ \E p \in Programs : file = p[1] /\ runner = p[2]
    /\ proc = "load"
    /\ pc = IF HasMain(file) THEN "main" ELSE "none"
    /\ tpc = IF HasSuite(file) THEN "undefined" ELSE "none"
    /\ HelloWorld = [f \in Flows |-> Undefined]
    /\ hello = Undefined
    /\ stdout = <<>>
    /\ stderr = <<>>
    /\ exitCode = <<>>
    /\ exitStatus = <<>>
    /\ signers = Undefined
    /\ helloWorld = Undefined
    /\ results = <<>>

\* The module does not parse: nothing of it runs and the process ends with
\* status 1.
Load_SyntaxError ==
    /\ proc = "load"
    /\ runner = "esm"
    /\ stderr' = Append(stderr, <<"SyntaxError", "Identifier 'ethers' has already been declared">>)
    /\ exitStatus' = <<1>>
    /\ proc' = "exited"
    /\ UNCHANGED <<contractVars, envVars, file, runner, scriptVars, exitCode,
                   suiteVars, HelloWorld>>

\* main() is called while the module loads and runs up to its first await:
\* the client is created and the factory is asked for.
Main_GetContractFactory ==
    /\ proc = "load"
    /\ runner # "esm"
    /\ pc = "main"
    /\ Issue("main", <<Req("main", "getContractFactory", NoAddress, "", "", "HelloWorld")>>)
    /\ pc' = "main:12"
    /\ UNCHANGED <<contractVars, procVars, hello, stdout, exitVars, suiteVars,
                   HelloWorld>>

\* The module-level call describe("HelloWorld contract", ...), after main()
\* was called: the test runner registers the suite; in a script describe is
\* not defined, the ReferenceError is uncaught and ends the process with
\* status 1.
Describe ==
    /\ proc = "load"
    /\ runner # "esm"
    /\ HasSuite(file)
    /\ pc # "main"
    /\ IF runner = "test"
       THEN /\ tpc' = "before"
            /\ proc' = "running"
            /\ UNCHANGED exitVars
       ELSE /\ stderr' = Append(stderr, <<"ReferenceError", "describe is not defined">>)
            /\ exitStatus' = <<1>>
            /\ proc' = "exited"
            /\ UNCHANGED <<tpc, exitCode>>
    /\ UNCHANGED <<contractVars, envVars, file, runner, scriptVars, signers,
                   helloWorld, results, HelloWorld>>

\* The end of a module that has no suite: the process goes on running what
\* main() has started.
Loaded ==
    /\ proc = "load"
    /\ ~HasSuite(file)
    /\ pc # "main"
    /\ proc' = "running"
    /\ UNCHANGED <<contractVars, envVars, file, runner, scriptVars, exitVars,
                   suiteVars, HelloWorld>>

\* const HelloWorld = <factory>; await HelloWorld.deploy()
Main_Deploy ==
    /\ pc = "main:12"
    /\ Resolved("main")
    /\ HelloWorld' = [HelloWorld EXCEPT !["main"] = resp["main"].value]
    /\ Issue("main", <<Req("main", "deploy", NoAddress, "", resp["main"].value.signer,
                           resp["main"].value.name)>>)
    /\ pc' = "main:13"
    /\ UNCHANGED <<contractVars, procVars, hello, stdout, exitVars, suiteVars>>

\* const hello = <contract>; await hello.deployed()
Main_Deployed ==
    /\ pc = "main:13"
    /\ Resolved("main")
    /\ hello' = resp["main"].value
    /\ Issue("main", <<Req("main", "deployed", resp["main"].value.address, "",
                           resp["main"].value.signer, resp["main"].value)>>)
    /\ pc' = "main:16"
    /\ UNCHANGED <<contractVars, procVars, stdout, exitVars, suiteVars, HelloWorld>>

\* A mutant of Main_Log: the address is logged without the wait for the
\* deployment (the await of hello.deployed() is missing).
Main_Log_NoWait ==
    /\ pc = "main:16"
    /\ proc = "running"
    /\ stdout' = Append(stdout, <<"HelloWorld deployed to:", hello.address>>)
    /\ pc' = "settled"
    /\ UNCHANGED <<contractVars, envVars, procVars, hello, exitVars, suiteVars,
                   HelloWorld>>

\* console.log("HelloWorld deployed to:", hello.address); main() returns.
Main_Log ==
    /\ pc = "main:16"
    /\ Resolved("main")
    /\ stdout' = Append(stdout, <<"HelloWorld deployed to:", hello.address>>)
    /\ Consume("main")
    /\ pc' = "settled"
    /\ UNCHANGED <<contractVars, procVars, hello, exitVars, suiteVars, HelloWorld>>

\* A mutant of Main_Catch: the error is reported and the exit code is not set.
Main_Catch_NoExitCode ==
    /\ pc \in {"main:12", "main:13", "main:16"}
    /\ Rejected("main")
    /\ stderr' = Append(stderr, <<resp["main"].kind, resp["main"].message>>)
    /\ Consume("main")
    /\ pc' = "settled"
    /\ UNCHANGED <<contractVars, procVars, hello, stdout, exitCode, exitStatus,
                   suiteVars, HelloWorld>>

\* An await of main() rejects: main's promise rejects and the handler runs:
\* console.error(error); process.exitCode = 1
Main_Catch ==
    /\ pc \in {"main:12", "main:13", "main:16"}
    /\ Rejected("main")
    /\ stderr' = Append(stderr, <<resp["main"].kind, resp["main"].message>>)
    /\ exitCode' = <<1>>
    /\ Consume("main")
    /\ pc' = "settled"
    /\ UNCHANGED <<contractVars, procVars, hello, stdout, exitStatus, suiteVars,
                   HelloWorld>>

(***************************************************************************)
(* The suite describe("HelloWorld contract") as the test runner runs it:   *)
(* the before hook once, then the scenarios in the order written.  A       *)
(* scenario that throws or whose assertion fails is reported as failed and *)
(* the next one runs; a failed hook ends the suite.  The suite of          *)
(* scripts/deploy.ts has the first scenario only, and reads with greet().  *)
(***************************************************************************)
\* The function the first scenario calls to read the greeting.
It1Method == IF file = ReadmeTestTs THEN "greetFunction" ELSE "greet"

\* The scenario that runs after scenario n of the file.
AfterIt(n) ==
    IF file = ReadmeTestTs /\ n < 4 THEN "it" \o ToString(n + 1) ELSE "end"

Result(n, passed, actual) == [it |-> n, passed |-> passed, actual |-> actual]

\* A method of the contract object is called: a name the ABI does not have
\* is undefined on the object, and calling it throws a TypeError, which
\* fails scenario n; otherwise the call is sent and awaited.
Invoke(n, fn, sender, arg, awaiting) ==
    IF fn \in Abi
    THEN /\ Issue("suite", <<Req("suite", "call", helloWorld.address, fn, sender, arg)>>)
         /\ tpc' = awaiting
         /\ UNCHANGED results
    ELSE /\ results' = Append(results, Result(n, FALSE, "TypeError: not a function"))
         /\ tpc' = AfterIt(n)
         /\ Consume("suite")

\* before: [owner, addr1] = await ethers.getSigners()   (README only)
Before_GetSigners ==
    /\ proc = "running"
    /\ tpc = "before"
    /\ file = ReadmeTestTs
    /\ Issue("suite", <<Req("suite", "getSigners", NoAddress, "", "", "")>>)
    /\ tpc' = "before:getSigners"
    /\ UNCHANGED <<contractVars, procVars, scriptVars, exitVars, signers,
                   helloWorld, results, HelloWorld>>

\* before: const HelloWorld = await ethers.getContractFactory("HelloWorld")
Before_GetContractFactory ==
    /\ \/ proc = "running" /\ tpc = "before" /\ file = DeployTs /\ UNCHANGED signers
       \/ tpc = "before:getSigners" /\ Resolved("suite")
            /\ signers' = resp["suite"].value
    /\ Issue("suite", <<Req("suite", "getContractFactory", NoAddress, "", "", "HelloWorld")>>)
    /\ tpc' = "before:getContractFactory"
    /\ UNCHANGED <<contractVars, procVars, scriptVars, exitVars, helloWorld,
                   results, HelloWorld>>

\* before: helloWorld = await HelloWorld.deploy()
Before_Deploy ==
    /\ tpc = "before:getContractFactory"
    /\ Resolved("suite")
    /\ HelloWorld' = [HelloWorld EXCEPT !["suite"] = resp["suite"].value]
    /\ Issue("suite", <<Req("suite", "deploy", NoAddress, "", resp["suite"].value.signer,
                            resp["suite"].value.name)>>)
    /\ tpc' = "before:deploy"
    /\ UNCHANGED <<contractVars, procVars, scriptVars, exitVars, signers,
                   helloWorld, results>>

\* before: await helloWorld.deployed()
Before_Deployed ==
    /\ tpc = "before:deploy"
    /\ Resolved("suite")
    /\ helloWorld' = resp["suite"].value
    /\ Issue("suite", <<Req("suite", "deployed", resp["suite"].value.address, "",
                            resp["suite"].value.signer, resp["suite"].value)>>)
    /\ tpc' = "before:deployed"
    /\ UNCHANGED <<contractVars, procVars, scriptVars, exitVars, signers,
                   results, HelloWorld>>

\* The hook returns and the first scenario starts.
Before_Done ==
    /\ tpc = "before:deployed"
    /\ Resolved("suite")
    /\ Consume("suite")
    /\ tpc' = "it1"
    /\ UNCHANGED <<contractVars, procVars, scriptVars, exitVars, signers,
                   helloWorld, results, HelloWorld>>

\* An await of the hook rejects: the hook fails and no scenario runs.
Before_Throws ==
    /\ tpc \in {"before:getSigners", "before:getContractFactory",
                "before:deploy", "before:deployed"}
    /\ Rejected("suite")
    /\ results' = Append(results, Result(0, FALSE, resp["suite"].kind))
    /\ Consume("suite")
    /\ tpc' = "end"
    /\ UNCHANGED <<contractVars, procVars, scriptVars, exitVars, signers,
                   helloWorld, HelloWorld>>

\* it 1: const greeting = await helloWorld.greetFunction()   (README)
\*       const greeting = await helloWorld.greet()           (scripts/deploy.ts)
It1_Read ==
    /\ proc = "running"
    /\ tpc = "it1"
    /\ Invoke(1, It1Method, helloWorld.signer, "", "it1:read")
    /\ UNCHANGED <<contractVars, procVars, scriptVars, exitVars, signers,
                   helloWorld, HelloWorld>>

\* it 1: expect(greeting).to.equal("Hello, World!")
It1_Expect ==
    /\ tpc = "it1:read"
    /\ Resolved("suite")
    /\ results' = Append(results, Result(1, resp["suite"].value = "Hello, World!",
                                         resp["suite"].value))
    /\ Consume("suite")
    /\ tpc' = AfterIt(1)
    /\ UNCHANGED <<contractVars, procVars, scriptVars, exitVars, signers,
                   helloWorld, HelloWorld>>

\* A mutant of It2_Set: the await of setGreet is missing, so the read is
\* issued while the update is still outstanding.
It2_Set_NoAwait ==
    /\ proc = "running"
    /\ tpc = "it2"
    /\ Issue("suite", <<Req("suite", "call", helloWorld.address, "setGreet",
                            helloWorld.signer, "Hello, Ethereum!"),
                        Req("suite", "call", helloWorld.address, "greetFunction",
                            helloWorld.signer, "")>>)
    /\ tpc' = "it2:read"
    /\ UNCHANGED <<contractVars, procVars, scriptVars, exitVars, signers,
                   helloWorld, results, HelloWorld>>

\* it 2: await helloWorld.setGreet("Hello, Ethereum!")
It2_Set ==
    /\ proc = "running"
    /\ tpc = "it2"
    /\ Invoke(2, "setGreet", helloWorld.signer, "Hello, Ethereum!", "it2:set")
    /\ UNCHANGED <<contractVars, procVars, scriptVars, exitVars, signers,
                   helloWorld, HelloWorld>>

\* it 2: const newGreeting = await helloWorld.greetFunction()
It2_Read ==
    /\ tpc = "it2:set"
    /\ Resolved("suite")
    /\ Invoke(2, "greetFunction", helloWorld.signer, "", "it2:read")
    /\ UNCHANGED <<contractVars, procVars, scriptVars, exitVars, signers,
                   helloWorld, HelloWorld>>

\* it 2: expect(newGreeting).to.equal("Hello, Ethereum!")
It2_Expect ==
    /\ tpc = "it2:read"
    /\ Resolved("suite")
    /\ results' = Append(results, Result(2, resp["suite"].value = "Hello, Ethereum!",
                                         resp["suite"].value))
    /\ Consume("suite")
    /\ tpc' = AfterIt(2)
    /\ UNCHANGED <<contractVars, procVars, scriptVars, exitVars, signers,
                   helloWorld, HelloWorld>>

\* it 3: the call of await expect(helloWorld.setGreet("")).to.be.revertedWith(..)
It3_Set ==
    /\ proc = "running"
    /\ tpc = "it3"
    /\ Invoke(3, "setGreet", helloWorld.signer, "", "it3:set")
    /\ UNCHANGED <<contractVars, procVars, scriptVars, exitVars, signers,
                   helloWorld, HelloWorld>>

\* it 3: .to.be.revertedWith("Greeting cannot be empty") holds when the call
\* was reverted with that reason, and fails otherwise.
It3_Expect ==
    /\ tpc = "it3:set"
    /\ Resumed("suite")
    /\ LET r == resp["suite"] IN
       results' = Append(results,
            IF r.state = "error"
            THEN Result(3, r.kind = "revert" /\ r.message = "Greeting cannot be empty",
                        IF r.kind = "revert" THEN r.message ELSE r.kind)
            ELSE Result(3, FALSE, "not reverted"))
    /\ Consume("suite")
    /\ tpc' = AfterIt(3)
    /\ UNCHANGED <<contractVars, procVars, scriptVars, exitVars, signers,
                   helloWorld, HelloWorld>>

\* it 4: await helloWorld.connect(addr1).setGreet("Hello from addr1!")
It4_Set ==
    /\ proc = "running"
    /\ tpc = "it4"
    /\ Invoke(4, "setGreet", signers[2], "Hello from addr1!", "it4:set")
    /\ UNCHANGED <<contractVars, procVars, scriptVars, exitVars, signers,
                   helloWorld, HelloWorld>>

\* it 4: const newGreeting = await helloWorld.greetFunction()
It4_Read ==
    /\ tpc = "it4:set"
    /\ Resolved("suite")
    /\ Invoke(4, "greetFunction", helloWorld.signer, "", "it4:read")
    /\ UNCHANGED <<contractVars, procVars, scriptVars, exitVars, signers,
                   helloWorld, HelloWorld>>

\* it 4: expect(newGreeting).to.equal("Hello from addr1!")
It4_Expect ==
    /\ tpc = "it4:read"
    /\ Resolved("suite")
    /\ results' = Append(results, Result(4, resp["suite"].value = "Hello from addr1!",
                                         resp["suite"].value))
    /\ Consume("suite")
    /\ tpc' = AfterIt(4)
    /\ UNCHANGED <<contractVars, procVars, scriptVars, exitVars, signers,
                   helloWorld, HelloWorld>>

\* An await of a scenario rejects outside an expect: the scenario fails and
\* the next one runs.
It_Throws ==
    /\ tpc \in {"it1:read", "it2:set", "it2:read", "it4:set", "it4:read"}
    /\ Rejected("suite")
    /\ LET n == IF tpc = "it1:read" THEN 1
                ELSE IF tpc \in {"it2:set", "it2:read"} THEN 2 ELSE 4 IN
        /\ results' = Append(results, Result(n, FALSE, resp["suite"].kind))
        /\ tpc' = AfterIt(n)
    /\ Consume("suite")
    /\ UNCHANGED <<contractVars, procVars, scriptVars, exitVars, signers,
                   helloWorld, HelloWorld>>

\* The scenarios that failed (a failed hook counts as one).
Failures == Cardinality({i \in DOMAIN results : ~results[i].passed})

\* The suite is over: the test runner sets process.exitCode to the number
\* of failures.
Suite_Done ==
    /\ proc = "running"
    /\ tpc = "end"
    /\ exitCode' = <<Failures>>
    /\ tpc' = "reported"
    /\ UNCHANGED <<contractVars, envVars, procVars, scriptVars, stderr, exitStatus,
                   signers, helloWorld, results, HelloWorld>>

\* The process ends with process.exitCode, or with 0 when it was never set:
\* a script when main() has settled and nothing is left to run, a test run
\* when the runner has reported (whether or not main() has settled).
ProcessExit ==
    /\ proc = "running"
    /\ \/ runner = "run" /\ pc = "settled"
       \/ runner = "test" /\ tpc = "reported"
    /\ exitStatus' = IF exitCode = <<>> THEN <<0>> ELSE exitCode
    /\ proc' = "exited"
    /\ UNCHANGED <<contractVars, envVars, file, runner, scriptVars, stderr,
                   exitCode, suiteVars, HelloWorld>>

flowVars == <<procVars, scriptVars, exitVars, suiteVars, HelloWorld>>

NextRun ==
    \/ Load_SyntaxError
    \/ Main_GetContractFactory
    \/ Describe
    \/ Loaded
    \/ Main_Deploy
    \/ Main_Deployed
    \/ Main_Log
    \/ Main_Catch
    \/ Before_GetSigners
    \/ Before_GetContractFactory
    \/ Before_Deploy
    \/ Before_Deployed
    \/ Before_Done
    \/ Before_Throws
    \/ It1_Read
    \/ It1_Expect
    \/ It2_Set
    \/ It2_Read
    \/ It2_Expect
    \/ It3_Set
    \/ It3_Expect
    \/ It4_Set
    \/ It4_Read
    \/ It4_Expect
    \/ It_Throws
    \/ Suite_Done
    \/ ProcessExit
    \/ \E i \in DOMAIN pending : EnvGetSigners(i) /\ UNCHANGED flowVars
    \/ \E i \in DOMAIN pending : EnvGetContractFactory(i) /\ UNCHANGED flowVars
    \/ \E i \in DOMAIN pending : EnvDeploy(i) /\ UNCHANGED flowVars
    \/ \E i \in DOMAIN pending : EnvDeployed(i) /\ UNCHANGED flowVars
    \/ \E i \in DOMAIN pending : EnvCall(i) /\ UNCHANGED flowVars
    \/ \E i \in DOMAIN pending, e \in EnvErrors : EnvFail(i, e) /\ UNCHANGED flowVars

SpecRun == InitRun /\ [][NextRun]_vars

(***************************************************************************)
(* Properties of the runs, checked under SpecRun.                          *)
(***************************************************************************)
ByMain(s)  == s.by = "main"
BySuite(s) == s.by = "suite"

\* What the environment has answered to main(), and to the suite.
MainServed  == SelectSeq(served, ByMain)
SuiteServed == SelectSeq(served, BySuite)

OpsOk(s) == [i \in DOMAIN s |-> <<s[i].op, s[i].ok>>]

\* Factory lookup, deploy and the confirmation wait of main() have all
\* completed successfully, in that order.
MainAllSucceeded ==
    OpsOk(MainServed) = <<<<"getContractFactory", TRUE>>, <<"deploy", TRUE>>,
                          <<"deployed", TRUE>>>>

MainAnyFailed == \E i \in DOMAIN MainServed : ~MainServed[i].ok

\* The environment has failed a request of the suite (a revert is the
\* contract's answer, not a failure of the environment).
SuiteEnvFailed == \E i \in DOMAIN SuiteServed : SuiteServed[i].error \in EnvErrors

\* The deployment the hook asked for has been confirmed.
SuiteConfirmed ==
    \E i \in DOMAIN SuiteServed : SuiteServed[i].op = "deployed" /\ SuiteServed[i].ok

HookPcs == {"none", "undefined", "before", "before:getSigners",
            "before:getContractFactory", "before:deploy", "before:deployed"}

SuitePending == SelectSeq(pending, BySuite)

\* C6: main() writes the line "HelloWorld deployed to: <address>" at most
\* once, only after its factory lookup, deploy and confirmation wait have
\* completed successfully in that order, and never when one of them failed.
C6_LogOnlyAfterDeployment ==
    /\ Len(stdout) <= 1
    /\ stdout # <<>> =>
            /\ MainAllSucceeded
            /\ stdout[1] = <<"HelloWorld deployed to:", MainServed[2].to>>
            /\ MainServed[2].to \in DOMAIN instances
    /\ MainAnyFailed => stdout = <<>>

\* C6 witness: scripts/deploy.ts has written the line, for the instance
\* main() deployed, in a run that deployed a second instance too.
C6_Witness ==
    /\ file = DeployTs
    /\ Len(stdout) = 1
    /\ Cardinality(DOMAIN instances) = 2
    /\ tpc = "reported"
    /\ stdout[1][2] # helloWorld.address

\* C7: a run of the script in which main() was called ends with status 0
\* unless factory lookup, deploy or confirmation failed (so it does when
\* all three succeed), and with a non-zero status after the error was
\* reported when one of them failed; no step is attempted more than once.
C7_ExitStatus ==
    /\ \A op \in Ops : issued["main"][op] <= 1
    /\ (proc = "exited" /\ issued["main"]["getContractFactory"] > 0) =>
            /\ ~MainAnyFailed => exitStatus = <<0>>
            /\ MainAnyFailed =>
                    /\ exitStatus # <<0>>
                    /\ \E i \in DOMAIN stderr : stderr[i][1] \in EnvErrors

\* C9: the setup deploys exactly one instance, and its deployment is
\* confirmed before the first scenario issues any call to it; from then on
\* at most one request to the environment is outstanding at any moment;
\* each request of the suite is answered before the suite issues the next.
C9_OneCallAtATime ==
    /\ issued["suite"]["deploy"] <= 1
    /\ issued["suite"]["deployed"] <= 1
    /\ Cardinality({j \in DOMAIN SuiteServed :
                        SuiteServed[j].op = "deploy" /\ SuiteServed[j].ok}) <= 1
    /\ tpc \notin HookPcs /\ (results = <<>> \/ results[1].it # 0) =>
            /\ issued["suite"]["deploy"] = 1
            /\ SuiteConfirmed
            /\ helloWorld.address \in DOMAIN instances
    /\ issued["suite"]["call"] > 0 => SuiteConfirmed
    /\ tpc \notin HookPcs \union {"end", "reported"} => SuiteConfirmed
    /\ Len(SuitePending) <= 1
    /\ SuitePending # <<>> => resp["suite"] = NoResp
    /\ SuiteConfirmed => Len(pending) <= 1
    /\ issued["suite"]["getSigners"] + issued["suite"]["getContractFactory"]
         + issued["suite"]["deploy"] + issued["suite"]["deployed"]
         + issued["suite"]["call"] = Len(SuiteServed) + Len(SuitePending)

\* C9 witness: the README suite's second scenario has its read outstanding,
\* after the update it awaited was answered.
C9_Witness ==
    /\ file = ReadmeTestTs
    /\ tpc = "it2:read"
    /\ Len(pending) = 1
    /\ issued["suite"]["call"] = 3
    /\ Len(history) = 2

\* What the four scenarios report when each of their assertions holds.
AllPass ==
    <<Result(1, TRUE, "Hello, World!"),
      Result(2, TRUE, "Hello, Ethereum!"),
      Result(3, TRUE, "Greeting cannot be empty"),
      Result(4, TRUE, "Hello from addr1!")>>

\* C10: when the four scenarios run in order against the one instance the
\* setup deployed (and the environment answers every request), each
\* assertion holds: scenario 1 reads "Hello, World!", scenario 2 reads
\* "Hello, Ethereum!" after setting it, scenario 3's empty set fails with
\* "Greeting cannot be empty" and leaves "Hello, Ethereum!", and scenario 4
\* reads "Hello from addr1!" after a second caller set it, which is the
\* greeting stored at the end.
C10_ScenariosPass ==
    (file = ReadmeTestTs /\ ~SuiteEnvFailed) =>
        /\ Len(results) <= 4
        /\ \A i \in DOMAIN results : results[i] = AllPass[i]
        /\ Cardinality(DOMAIN instances) <= 1
        /\ tpc = "it4" => greet(helloWorld.address) = "Hello, Ethereum!"
        /\ tpc \in {"end", "reported"} =>
                /\ results = AllPass
                /\ greet(helloWorld.address) = "Hello from addr1!"
                /\ Len(history) = 6
                /\ \A j \in DOMAIN history : history[j].to = helloWorld.address
                /\ history[4].arg = "" /\ ~history[4].ok
                /\ history[4].post = "Hello, Ethereum!"
                /\ IsSet(history[5]) /\ history[5].sender # history[2].sender
        /\ proc = "exited" => exitStatus = <<0>>

\* C10 witness: the README suite has run to its end with no failure of the
\* environment.
C10_Witness ==
    /\ file = ReadmeTestTs
    /\ tpc = "end"
    /\ ~SuiteEnvFailed
    /\ Len(results) = 4

====
